---- MODULE Spec2Model ----
(***************************************************************************)
(* Content-based recommendation engine of the bookstore catalog:           *)
(*   books/ai_recommendation.py  textual recommender (TF-IDF + KMeans),    *)
(*                               persisted artifact, 30 minute cache       *)
(*   books/visual_search.py      visual index, cosine ranking, 15 minute   *)
(*                               cache of the index snapshot               *)
(* Strings are sequences of atoms: a word, or the separator " ".           *)
(* Times are seconds.                                                      *)
(***************************************************************************)
EXTENDS Integers, Sequences, FiniteSets, TLC

VARIABLES
    books,       \* Book table, rows in default (primary key) order
    userBooks,   \* UserBook table, rows in default (primary key) order
    nextId,      \* next primary key the Book table hands out
    artifact,    \* the file at MODEL_PATH
    trainer,     \* a train_recommendation_model() run outside any request
    cache,       \* django.core.cache: key -> entry
    now,         \* wall clock, seconds
    call,        \* outcome of the operation performed by the last step
    orders,      \* Order table, rows in creation order
    wishlist,    \* Wishlist table, rows in creation order
    wish,        \* add_to_wishlist requests in flight: client -> position
    inflight     \* other requests in flight: client -> position and locals

vars == <<books, userBooks, nextId, artifact, trainer, cache, now, call,
          orders, wishlist, wish, inflight>>

(***************************************************************************)
(* Bounds of the model.                                                    *)
(***************************************************************************)
MaxBooks == 2
MaxTopN == 2
MaxTicks == 2
MaxTrainBooks == 11
MaxVisBooks == 3
MaxUserBooks == 1
MaxVisTopN == 3

\* The clock advances in steps of a quarter of an hour.
TickSeconds == 15 * 60

BookIds == 1..MaxBooks
TopNs == (0 - 1)..MaxTopN
VisTopNs == (0 - 1)..MaxVisTopN

(***************************************************************************)
(* Helpers on sequences and sets.                                          *)
(***************************************************************************)
Min(a, b) == IF a <= b THEN a ELSE b

Max(a, b) == IF a >= b THEN a ELSE b

Range(s) == {s[i] : i \in DOMAIN s}

\* Python's lst[:n]: a negative n counts from the end.
PySlice(s, n) ==
    IF n >= 0 THEN SubSeq(s, 1, Min(n, Len(s)))
    ELSE SubSeq(s, 1, Max(Len(s) + n, 0))

IndexOf(s, x) == CHOOSE i \in DOMAIN s : s[i] = x /\ \A j \in 1..(i - 1) : s[j] # x

(***************************************************************************)
(* Catalog rows.  A Book row carries the three text attributes the         *)
(* recommender reads.  "other" and "various" are words of scikit-learn's   *)
(* English stop word list.                                                 *)
(***************************************************************************)
StopWords == {"other", "various"}

Profiles ==
    { [category |-> <<"novel">>, genre |-> <<"fiction">>, author |-> <<"smith">>],
      [category |-> <<"other">>, genre |-> <<"other">>, author |-> <<"various">>] }

\* image_features: NULL, or a list of numbers, or (the column is a JSONField)
\* a value numpy cannot make an array of, such as a ragged list.
NullFeatures == [null |-> TRUE, vec |-> <<>>, ragged |-> FALSE]

Features(v) == [null |-> FALSE, vec |-> v, ragged |-> FALSE]

RaggedFeatures == [null |-> FALSE, vec |-> <<>>, ragged |-> TRUE]

\* A Book row as created: image_features is NULL until it is precomputed.
NewBook(id, p) ==
    [id |-> id, category |-> p.category, genre |-> p.genre, author |-> p.author,
     image_features |-> NullFeatures]

(***************************************************************************)
(* Textual pipeline: df['features'], TfidfVectorizer, KMeans.              *)
(***************************************************************************)
\* df['category'] + ' ' + df['genre'] + ' ' + df['author']
FeatureString(b) == b.category \o <<" ">> \o b.genre \o <<" ">> \o b.author

IsTerm(a) == a # " " /\ a \notin StopWords

\* The vectorizer's analyzer: split at the separators, drop the stop words.
Tokens(s) == SelectSeq(s, IsTerm)

\* The vocabulary fitted over all documents.
Vocabulary(features) == UNION {Range(Tokens(features[i])) : i \in DOMAIN features}

Count(s, t) == Cardinality({i \in DOMAIN s : s[i] = t})

\* The greatest common divisor of a set of positive numbers (1 for none).
GcdOf(S) ==
    IF S = {} THEN 1
    ELSE CHOOSE d \in 1..(CHOOSE m \in S : \A x \in S : x <= m) :
            /\ \A x \in S : x % d = 0
            /\ \A e \in 1..(CHOOSE m \in S : \A x \in S : x <= m) :
                  (\A x \in S : x % e = 0) => e <= d

\* transform(): term counts over the fitted vocabulary, weighted by a positive
\* idf per term and scaled to unit length.  Two documents get the same vector
\* exactly when their counts are proportional, so a vector is represented by
\* its counts divided by their greatest common divisor.
Tfidf(vocab, f) ==
    LET raw == [t \in vocab |-> Count(Tokens(f), t)]
        g == GcdOf({raw[t] : t \in vocab} \ {0})
    IN [t \in vocab |-> raw[t] \div g]

\* The position (from 0) of the vector v among the distinct vectors of X, in
\* order of first occurrence.
FirstRank(X, v) ==
    Cardinality({w \in Range(X) :
        (CHOOSE i \in DOMAIN X : X[i] = w /\ \A j \in 1..(i - 1) : X[j] # w)
      < (CHOOSE i \in DOMAIN X : X[i] = v /\ \A j \in 1..(i - 1) : X[j] # v)})

\* KMeans(n_clusters=k, random_state=42).fit(X): the fitted models possible.
\* With at least as many clusters as distinct vectors every distinct vector
\* is a centre of its own and equal vectors share a label; with fewer
\* clusters the partition depends on the arithmetic of the library and any
\* labelling is allowed.
KMeansFits(X, k) ==
    IF Cardinality(Range(X)) <= k
    THEN {[n_clusters |-> k, label |-> [v \in Range(X) |-> FirstRank(X, v)]]}
    ELSE {[n_clusters |-> k, label |-> f] : f \in [Range(X) -> 0..(k - 1)]}

\* kmeans.predict(vectorizer.transform([f]))[0]
Predict(m, f) == m.kmeans.label[Tfidf(m.vectorizer, f)]

(***************************************************************************)
(* train_recommendation_model, up to the point where the file is opened.   *)
(***************************************************************************)
ClusterCap == 10

NoData ==
    [vectorizer |-> {}, kmeans |-> [n_clusters |-> 0, label |-> <<>>],
     book_ids |-> <<>>, features |-> <<>>]

\* Variant of NClusters: the cap is requested whatever the number of rows.
NClustersAlwaysCap(n) == ClusterCap

\* n_clusters=min(10, len(df))
NClusters(n) == Min(ClusterCap, n)

\* Variant of FeatureList: the strings are listed in the reverse of the order
\* of the ids.
FeatureListReversed(bs) ==
    [i \in DOMAIN bs |-> FeatureString(bs[Len(bs) + 1 - i])]

\* df['features'].tolist()
FeatureList(bs) == [i \in DOMAIN bs |-> FeatureString(bs[i])]

\* df['id'].tolist()
IdList(bs) == [i \in DOMAIN bs |-> bs[i].id]

\* Lines 17-31 on a non-empty table: "raise" (fit_transform raises ValueError
\* on an empty vocabulary) or "ok" with the model_data to be pickled.
TrainFit(bs) ==
    LET features == FeatureList(bs)
        vocab == Vocabulary(features)
        X == [i \in DOMAIN features |-> Tfidf(vocab, features[i])]
    IN IF vocab = {} THEN {[kind |-> "raise", data |-> NoData]}
       ELSE {[kind |-> "ok",
              data |-> [vectorizer |-> vocab, kmeans |-> km,
                        book_ids |-> IdList(bs), features |-> features]]
             : km \in KMeansFits(X, NClusters(Len(bs)))}

\* Variant of TrainOutcomes without the early return: an empty table yields
\* an artifact with empty lists.
TrainOutcomesNoEarlyReturn(bs) ==
    IF bs = <<>> THEN {[kind |-> "ok", data |-> NoData]}
    ELSE TrainFit(bs)

\* The outcomes of lines 13-31 on the rows bs: "noop" is the early return of
\* line 15.
TrainOutcomes(bs) ==
    IF bs = <<>> THEN {[kind |-> "noop", data |-> NoData]}
    ELSE TrainFit(bs)

(***************************************************************************)
(* The artifact file.  src is the table the data was computed from (kept   *)
(* for the statement of the properties only).                              *)
(***************************************************************************)
Absent == [state |-> "absent", data |-> NoData, src |-> <<>>]

Partial == [state |-> "partial", data |-> NoData, src |-> <<>>]

Valid(data, bs) == [state |-> "valid", data |-> data, src |-> bs]

(***************************************************************************)
(* django.core.cache                                                       *)
(***************************************************************************)
\* Variant of RecTTL: thirty hours.
RecTTLHours == 60 * 60 * 30

RecTTL == 60 * 30

IndexTTL == 60 * 15

\* f'book_recommendations_{book_id}'
RecKey(id) == <<"book_recommendations", id>>

FeaturesKey == <<"book_features", 0>>

CacheKeys == {RecKey(id) : id \in BookIds} \cup {FeaturesKey}

NoEntry == [present |-> FALSE, value |-> <<>>, expiry |-> 0, stored |-> 0]

\* cache.get(key): the value of an entry that has not expired, else None.
CacheGet(c, key, t) ==
    IF c[key].present /\ t < c[key].expiry
    THEN [found |-> TRUE, value |-> c[key].value]
    ELSE [found |-> FALSE, value |-> <<>>]

\* cache.set(key, value, timeout)
CacheSet(c, key, value, ttl, t) ==
    [c EXCEPT ![key] = [present |-> TRUE, value |-> value,
                        expiry |-> t + ttl, stored |-> t]]

(***************************************************************************)
(* get_recommendations                                                     *)
(***************************************************************************)
\* Book.objects.all()[:top_n]: the first top_n rows; a negative bound makes
\* QuerySet.__getitem__ raise ("Negative indexing is not supported.").
DefaultRecommendations(bs, n) ==
    IF n < 0 THEN [outcome |-> "raise", result |-> <<>>]
    ELSE [outcome |-> "return", result |-> SubSeq(IdList(bs), 1, Min(n, Len(bs)))]

RECURSIVE Masked(_, _, _)
\* pd.Series(s)[mask].tolist(), from index i on
Masked(s, mask, i) ==
    IF i > Len(s) THEN <<>>
    ELSE (IF i \in mask THEN <<s[i]>> ELSE <<>>) \o Masked(s, mask, i + 1)

\* Variant of ClusterBooks whose mask does not remove the query.
ClusterBooksWithSelf(m, id, n) ==
    LET book_index == IndexOf(m.book_ids, id)
        cluster == Predict(m, m.features[book_index])
        cluster_mask == {i \in DOMAIN m.book_ids :
                            Predict(m, m.features[i]) = cluster}
    IN PySlice(Masked(m.book_ids, cluster_mask, 1), n)

\* Lines 73-81: the ids of the query's cluster, without the query, cut to
\* top_n.
ClusterBooks(m, id, n) ==
    LET book_index == IndexOf(m.book_ids, id)
        cluster == Predict(m, m.features[book_index])
        cluster_mask == {i \in DOMAIN m.book_ids :
                            /\ Predict(m, m.features[i]) = cluster
                            /\ m.book_ids[i] # id}
    IN PySlice(Masked(m.book_ids, cluster_mask, 1), n)

\* Variant of FilterIdIn: one item for every id, live or not.
FilterIdInKeepDeleted(bs, ids) == ids

\* list(Book.objects.filter(id__in=ids)): the live rows, in table order.
FilterIdIn(bs, ids) ==
    LET InIds(b) == b.id \in Range(ids)
    IN IdList(SelectSeq(bs, InIds))

\* Variant of FallbackResult: a failed training run yields an empty list.
FallbackResultEmptyOnTrainFailure(path, bs, n) ==
    IF path = "train_failed" THEN [outcome |-> "return", result |-> <<>>]
    ELSE DefaultRecommendations(bs, n)

\* The value returned when the query degrades: lines 54, 69 and 91 are the
\* same expression.
FallbackResult(path, bs, n) == DefaultRecommendations(bs, n)

\* Lines 49-93 after a cache miss, given the outcome t of the training run of
\* line 51 ("none" when the file exists).  store tells whether cache.set ran.
RecAfterTrain(bs, art, t, id, n) ==
    LET art1 == IF t.kind = "ok" THEN Valid(t.data, bs) ELSE art
        Fallback(path) ==
            LET d == FallbackResult(path, bs, n)
            IN [outcome |-> d.outcome, result |-> d.result, path |-> path,
                train |-> t.kind, artifact |-> art1,
                store |-> d.outcome = "return"]
    IN IF t.kind = "raise" THEN Fallback("train_failed")
       ELSE IF art1.state # "valid" THEN Fallback("load_error")
       ELSE IF id \notin Range(art1.data.book_ids) THEN Fallback("unknown_id")
       ELSE [outcome |-> "return",
             result |-> FilterIdIn(bs, ClusterBooks(art1.data, id, n)),
             path |-> "cluster", train |-> t.kind, artifact |-> art1,
             store |-> TRUE]

\* Variant of RecMiss that trains whether or not the file exists.
RecMissAlwaysTrains(bs, art, id, n) ==
    {RecAfterTrain(bs, art, t, id, n) : t \in TrainOutcomes(bs)}

\* The outcomes of get_recommendations(id, n) when the cache misses.
RecMiss(bs, art, id, n) ==
    {RecAfterTrain(bs, art, t, id, n) :
        t \in IF art.state = "absent" THEN TrainOutcomes(bs)
              ELSE {[kind |-> "none", data |-> NoData]}}

\* stale: the cache held an expired entry for the key when it was looked up.
\* upload, index and found are filled by find_similar_books_enhanced: its
\* argument, where its index came from and the list it sorted.  params and
\* status are filled by the views: the request's parameters and the status
\* code of the response.
NoCall ==
    [op |-> "none", book_id |-> 0, top_n |-> 0, outcome |-> "none",
     result |-> <<>>, path |-> "none", train |-> "none", stale |-> FALSE,
     upload |-> [kind |-> "none", features |-> NullFeatures],
     index |-> "none", found |-> <<>>,
     params |-> [user_id |-> 0, book_id |-> 0, authenticated |-> FALSE],
     status |-> 0]

\* An entry for the key is stored and its expiry time has passed.
Expired(c, key, t) == c[key].present /\ ~(t < c[key].expiry)

GetRecommendations(id, n) ==
    LET got == CacheGet(cache, RecKey(id), now)
    IN IF got.found /\ got.value # <<>>
       THEN /\ call' = [NoCall EXCEPT !.op = "get_recommendations",
                           !.book_id = id, !.top_n = n, !.outcome = "return",
                           !.result = got.value, !.path = "cache"]
            /\ UNCHANGED <<books, userBooks, nextId, artifact, trainer, cache, now, orders, wishlist, wish, inflight>>
       ELSE \E r \in RecMiss(books, artifact, id, n) :
               /\ artifact' = r.artifact
               /\ cache' = IF r.store
                           THEN CacheSet(cache, RecKey(id), r.result, RecTTL, now)
                           ELSE cache
               /\ call' = [NoCall EXCEPT !.op = "get_recommendations",
                              !.book_id = id, !.top_n = n, !.outcome = r.outcome,
                              !.result = r.result, !.path = r.path,
                              !.train = r.train,
                              !.stale = Expired(cache, RecKey(id), now)]
               /\ UNCHANGED <<books, userBooks, nextId, trainer, now, orders, wishlist, wish, inflight>>

(***************************************************************************)
(* train_recommendation_model run on its own (from a shell), in two steps: *)
(* lines 13-34 (read the table, fit, open the file for writing, which      *)
(* truncates it) and line 35 (dump).                                       *)
(***************************************************************************)
Idle == [pc |-> "idle", pending |-> NoData, src |-> <<>>]

TrainBegin ==
    /\ trainer.pc = "idle"
    /\ \E t \in TrainOutcomes(books) :
          /\ IF t.kind = "ok"
             THEN /\ trainer' = [pc |-> "writing", pending |-> t.data, src |-> books]
                  /\ artifact' = Partial
             ELSE UNCHANGED <<trainer, artifact>>
          /\ call' = [NoCall EXCEPT !.op = "train",
                         !.outcome = IF t.kind = "raise" THEN "raise" ELSE "return",
                         !.train = t.kind]
    /\ UNCHANGED <<books, userBooks, nextId, cache, now, orders, wishlist, wish, inflight>>

TrainEnd ==
    /\ trainer.pc = "writing"
    /\ artifact' = Valid(trainer.pending, trainer.src)
    /\ trainer' = Idle
    /\ call' = [NoCall EXCEPT !.op = "train_end", !.outcome = "return"]
    /\ UNCHANGED <<books, userBooks, nextId, cache, now, orders, wishlist, wish, inflight>>

(***************************************************************************)
(* views.add_to_cart, views.add_to_wishlist, views.remove_from_wishlist.   *)
(* A user is a number, 0 the anonymous user of a request without a login.  *)
(* add_to_wishlist runs Wishlist.objects.get_or_create, which is a SELECT, *)
(* then an INSERT, then (when the INSERT violates the unique constraint) a *)
(* second SELECT: three steps other requests may interleave with.          *)
(***************************************************************************)
MaxUsers == 2

MaxClients == 2

MaxQuantity == 2

Anonymous == 0

Users == 1..MaxUsers

Clients == 1..MaxClients

\* Book.price of the rows, in hundredths.
UnitPrice == 1999

BookPks(bs) == {bs[i].id : i \in DOMAIN bs}

NoRequest == [pc |-> "idle", user |-> 0, book |-> 0]

\* A client without a request in flight.  held is what the request has read
\* so far; seen, kept for a running index build, is the set of indexes that a
\* build over one state of the tables would have given since it began.
NoFlight ==
    [pc |-> "idle", user |-> 0, pk |-> 0, top_n |-> 0,
     upload |-> [kind |-> "none", features |-> NullFeatures],
     held |-> <<>>, seen |-> {}]

ShopEmpty ==
    /\ orders = <<>>
    /\ wishlist = <<>>
    /\ wish = [p \in Clients |-> NoRequest]
    /\ inflight = [p \in Clients |-> NoFlight]

\* The response of a view for the request of user u about the book pk.
Responded(op, u, pk, status, path) ==
    [NoCall EXCEPT !.op = op, !.status = status, !.path = path,
        !.outcome = IF status = 500 THEN "raise" ELSE "return",
        !.params = [user_id |-> u, book_id |-> pk, authenticated |-> u # Anonymous]]

\* status='pending' of lines 593 and 604
CartStatus == "pending"

\* Order.objects.filter(user=..., book=..., status='pending').first()
ExistingOrder(rows, u, pk) ==
    {i \in DOMAIN rows :
        /\ rows[i].user = u /\ rows[i].book = pk /\ rows[i].status = CartStatus
        /\ \A j \in 1..(i - 1) :
              ~(rows[j].user = u /\ rows[j].book = pk /\ rows[j].status = CartStatus)}

\* The pending requests of the cart views and what they hold.
CartPcs == {"add_save", "add_create", "update_save", "update_delete", "remove_delete"}

\* The primary key the database gives the next Order row: greater than every
\* key given before.  A key that is neither in the table nor held by a
\* request cannot be told from a fresh one, so the keys above those in use
\* are given again.
NextOrderId ==
    LET used == {orders[i].id : i \in DOMAIN orders}
                \cup {inflight[p].held[1].id :
                        p \in {c \in Clients : /\ inflight[c].pc \in CartPcs
                                                /\ inflight[c].held # <<>>}}
    IN IF used = {} THEN 1
       ELSE 1 + CHOOSE k \in used : \A j \in used : j <= k

AddToCart(u, pk) ==
    /\ IF u = Anonymous
       THEN /\ call' = Responded("add_to_cart", u, pk, 302, "login")
            /\ UNCHANGED orders
       ELSE IF pk \notin BookPks(books)
       THEN /\ call' = Responded("add_to_cart", u, pk, 404, "not_found")
            /\ UNCHANGED orders
       ELSE /\ IF ExistingOrder(orders, u, pk) # {}
               THEN \E i \in ExistingOrder(orders, u, pk) :
                       /\ orders[i].quantity < MaxQuantity
                       /\ orders' = [orders EXCEPT
                             ![i].quantity = @ + 1,
                             ![i].total_price = UnitPrice * (orders[i].quantity + 1)]
               ELSE orders' = Append(orders,
                        [id |-> NextOrderId, user |-> u, book |-> pk,
                         user_book |-> 0, quantity |-> 1,
                         total_price |-> UnitPrice, status |-> CartStatus])
            /\ call' = Responded("add_to_cart", u, pk, 302, "cart")
    /\ UNCHANGED <<books, userBooks, nextId, artifact, trainer, cache, now,
                   wishlist, wish, inflight>>

(***************************************************************************)
(* add_to_cart, update_cart and remove_from_cart as the database sees      *)
(* them: each view first reads (lines 590-593, 564, 582) and then writes   *)
(* (lines 595-605, 567-574, 583), and requests of other clients run in     *)
(* between.  held is the Order object of the view as it is when the write  *)
(* is issued.                                                              *)
(***************************************************************************)
MaxOrders == 2

OrderPks == 1..MaxOrders

\* get_object_or_404(Order, pk=pk, user=request.user, status='pending')
PendingOrder(rows, u, pk) ==
    {i \in DOMAIN rows :
        rows[i].id = pk /\ rows[i].user = u /\ rows[i].status = CartStatus}

\* Model.save() of an object that has a primary key: UPDATE of every column,
\* and INSERT under that key when the UPDATE matched no row.  Order.save()
\* (models.py lines 54-60) sets total_price first.
OrderSaved(rows, row) ==
    LET r == [row EXCEPT !.total_price = UnitPrice * row.quantity]
        Before(x) == x.id < row.id
        After(x) == x.id > row.id
    IN IF \E i \in DOMAIN rows : rows[i].id = row.id
       THEN [i \in DOMAIN rows |-> IF rows[i].id = row.id THEN r ELSE rows[i]]
       ELSE SelectSeq(rows, Before) \o <<r>> \o SelectSeq(rows, After)

\* order.delete(): DELETE of the row with the object's key
OrderDeleted(rows, row) ==
    LET Other(x) == x.id # row.id
    IN SelectSeq(rows, Other)

\* add_to_cart, lines 590-596 or 590-598: the book, the existing order.
AddToCartRead(p, u, pk) ==
    /\ inflight[p].pc = "idle"
    /\ IF u = Anonymous
       THEN /\ call' = Responded("add_to_cart", u, pk, 302, "login")
            /\ UNCHANGED inflight
       ELSE IF pk \notin BookPks(books)
       THEN /\ call' = Responded("add_to_cart", u, pk, 404, "not_found")
            /\ UNCHANGED inflight
       ELSE IF ExistingOrder(orders, u, pk) # {}
       THEN \E i \in ExistingOrder(orders, u, pk) :
               /\ orders[i].quantity < MaxQuantity
               /\ inflight' = [inflight EXCEPT ![p] =
                     [NoFlight EXCEPT !.pc = "add_save", !.user = u, !.pk = pk,
                         !.held = <<[orders[i] EXCEPT
                                       !.quantity = @ + 1,
                                       !.total_price = UnitPrice * (orders[i].quantity + 1)]>>]]
               /\ call' = Responded("add_to_cart", u, pk, 0, "found")
       ELSE /\ Len(orders) < MaxOrders
            /\ NextOrderId \in OrderPks
            /\ inflight' = [inflight EXCEPT ![p] =
                  [NoFlight EXCEPT !.pc = "add_create", !.user = u, !.pk = pk]]
            /\ call' = Responded("add_to_cart", u, pk, 0, "missing")
    /\ UNCHANGED <<books, userBooks, nextId, artifact, trainer, cache, now,
                   orders, wishlist, wish>>

\* update_cart, lines 564-569: a request that is not a POST only redirects.
UpdateCartRead(p, u, pk, method, quantity) ==
    /\ inflight[p].pc = "idle"
    /\ IF u = Anonymous
       THEN /\ call' = Responded("update_cart", u, pk, 302, "login")
            /\ UNCHANGED inflight
       ELSE IF PendingOrder(orders, u, pk) = {}
       THEN /\ call' = Responded("update_cart", u, pk, 404, "not_found")
            /\ UNCHANGED inflight
       ELSE IF method # "POST"
       THEN /\ call' = Responded("update_cart", u, pk, 302, "cart")
            /\ UNCHANGED inflight
       ELSE \E i \in PendingOrder(orders, u, pk) :
               /\ inflight' = [inflight EXCEPT ![p] =
                     [NoFlight EXCEPT
                         !.pc = IF quantity > 0 THEN "update_save" ELSE "update_delete",
                         !.user = u, !.pk = pk,
                         !.held = <<IF quantity > 0
                                    THEN [orders[i] EXCEPT
                                            !.quantity = quantity,
                                            !.total_price = UnitPrice * quantity]
                                    ELSE orders[i]>>]]
               /\ call' = Responded("update_cart", u, pk, 0, "found")
    /\ UNCHANGED <<books, userBooks, nextId, artifact, trainer, cache, now,
                   orders, wishlist, wish>>

\* remove_from_cart, line 582
RemoveFromCartRead(p, u, pk) ==
    /\ inflight[p].pc = "idle"
    /\ IF u = Anonymous
       THEN /\ call' = Responded("remove_from_cart", u, pk, 302, "login")
            /\ UNCHANGED inflight
       ELSE IF PendingOrder(orders, u, pk) = {}
       THEN /\ call' = Responded("remove_from_cart", u, pk, 404, "not_found")
            /\ UNCHANGED inflight
       ELSE \E i \in PendingOrder(orders, u, pk) :
               /\ inflight' = [inflight EXCEPT ![p] =
                     [NoFlight EXCEPT !.pc = "remove_delete", !.user = u,
                         !.pk = pk, !.held = <<orders[i]>>]]
               /\ call' = Responded("remove_from_cart", u, pk, 0, "found")
    /\ UNCHANGED <<books, userBooks, nextId, artifact, trainer, cache, now,
                   orders, wishlist, wish>>

\* The view a pending request belongs to.
CartView(pc) ==
    IF pc \in {"add_save", "add_create"} THEN "add_to_cart"
    ELSE IF pc \in {"update_save", "update_delete"} THEN "update_cart"
    ELSE "remove_from_cart"

\* Order.objects.create(...), lines 599-605
CartCreate(p) ==
    /\ inflight[p].pc = "add_create"
    /\ orders' = Append(orders,
          [id |-> NextOrderId, user |-> inflight[p].user, book |-> inflight[p].pk,
           user_book |-> 0, quantity |-> 1, total_price |-> UnitPrice,
           status |-> CartStatus])
    /\ inflight' = [inflight EXCEPT ![p] = NoFlight]
    /\ call' = Responded("add_to_cart", inflight[p].user, inflight[p].pk, 302, "created")
    /\ UNCHANGED <<books, userBooks, nextId, artifact, trainer, cache, now,
                   wishlist, wish>>

\* existing_order.save(), line 597; order.save(), line 570
CartSave(p) ==
    /\ inflight[p].pc \in {"add_save", "update_save"}
    /\ orders' = OrderSaved(orders, inflight[p].held[1])
    /\ inflight' = [inflight EXCEPT ![p] = NoFlight]
    /\ call' = Responded(CartView(inflight[p].pc), inflight[p].user,
                         inflight[p].pk, 302, "saved")
    /\ UNCHANGED <<books, userBooks, nextId, artifact, trainer, cache, now,
                   wishlist, wish>>

\* order.delete(), lines 573 and 583
CartDelete(p) ==
    /\ inflight[p].pc \in {"update_delete", "remove_delete"}
    /\ orders' = OrderDeleted(orders, inflight[p].held[1])
    /\ inflight' = [inflight EXCEPT ![p] = NoFlight]
    /\ call' = Responded(CartView(inflight[p].pc), inflight[p].user,
                         inflight[p].pk, 302, "deleted")
    /\ UNCHANGED <<books, userBooks, nextId, artifact, trainer, cache, now,
                   wishlist, wish>>

HasPair(rows, u, pk) == \E i \in DOMAIN rows : rows[i].user = u /\ rows[i].book = pk

\* Variant of WishlistInsert on a table without the unique constraint.
WishlistInsertUnconstrained(rows, u, pk) ==
    [ok |-> TRUE, rows |-> Append(rows, [user |-> u, book |-> pk])]

\* INSERT into Wishlist under unique_together = ('user', 'book'): the
\* database refuses a second row for a pair (IntegrityError).
WishlistInsert(rows, u, pk) ==
    IF HasPair(rows, u, pk) THEN [ok |-> FALSE, rows |-> rows]
    ELSE [ok |-> TRUE, rows |-> Append(rows, [user |-> u, book |-> pk])]

\* get_object_or_404, then the first SELECT of get_or_create.
AddToWishlistGet(p, u, pk) ==
    /\ wish[p].pc = "idle"
    /\ IF u = Anonymous
       THEN /\ call' = Responded("add_to_wishlist", u, pk, 302, "login")
            /\ UNCHANGED wish
       ELSE IF pk \notin BookPks(books)
       THEN /\ call' = Responded("add_to_wishlist", u, pk, 404, "not_found")
            /\ UNCHANGED wish
       ELSE IF HasPair(wishlist, u, pk)
       THEN /\ call' = Responded("add_to_wishlist", u, pk, 302, "already")
            /\ UNCHANGED wish
       ELSE /\ call' = Responded("add_to_wishlist", u, pk, 0, "get_missed")
            /\ wish' = [wish EXCEPT ![p] = [pc |-> "create", user |-> u, book |-> pk]]
    /\ UNCHANGED <<books, userBooks, nextId, artifact, trainer, cache, now,
                   orders, wishlist, inflight>>

\* The INSERT of get_or_create.
AddToWishlistCreate(p) ==
    /\ wish[p].pc = "create"
    /\ \E r \in {WishlistInsert(wishlist, wish[p].user, wish[p].book)} :
          /\ wishlist' = r.rows
          /\ IF r.ok
             THEN /\ call' = Responded("add_to_wishlist", wish[p].user, wish[p].book,
                                       302, "created")
                  /\ wish' = [wish EXCEPT ![p] = NoRequest]
             ELSE /\ call' = Responded("add_to_wishlist", wish[p].user, wish[p].book,
                                       0, "integrity_error")
                  /\ wish' = [wish EXCEPT ![p].pc = "reget"]
    /\ UNCHANGED <<books, userBooks, nextId, artifact, trainer, cache, now, orders, inflight>>

\* The SELECT get_or_create runs after an IntegrityError; the error is raised
\* again when the row is gone.
AddToWishlistReget(p) ==
    /\ wish[p].pc = "reget"
    /\ call' = Responded("add_to_wishlist", wish[p].user, wish[p].book,
                         IF HasPair(wishlist, wish[p].user, wish[p].book)
                         THEN 302 ELSE 500,
                         IF HasPair(wishlist, wish[p].user, wish[p].book)
                         THEN "already_after_race" ELSE "integrity_error")
    /\ wish' = [wish EXCEPT ![p] = NoRequest]
    /\ UNCHANGED <<books, userBooks, nextId, artifact, trainer, cache, now,
                   orders, wishlist, inflight>>

RemoveFromWishlist(u, pk) ==
    /\ IF u = Anonymous
       THEN /\ call' = Responded("remove_from_wishlist", u, pk, 302, "login")
            /\ UNCHANGED wishlist
       ELSE IF pk \notin BookPks(books)
       THEN /\ call' = Responded("remove_from_wishlist", u, pk, 404, "not_found")
            /\ UNCHANGED wishlist
       ELSE /\ wishlist' = SelectSeq(wishlist, LAMBDA r : ~(r.user = u /\ r.book = pk))
            /\ call' = Responded("remove_from_wishlist", u, pk, 302, "removed")
    /\ UNCHANGED <<books, userBooks, nextId, artifact, trainer, cache, now,
                   orders, wish, inflight>>

(***************************************************************************)
(* The environment: the catalog collaborator and the clock.                *)
(***************************************************************************)
AddBook(p) ==
    /\ nextId <= MaxBooks
    /\ books' = Append(books, NewBook(nextId, p))
    /\ nextId' = nextId + 1
    /\ call' = NoCall
    /\ UNCHANGED <<userBooks, artifact, trainer, cache, now, orders, wishlist, wish, inflight>>

DeleteBook(i) ==
    /\ i \in DOMAIN books
    /\ books' = SubSeq(books, 1, i - 1) \o SubSeq(books, i + 1, Len(books))
    /\ orders' = SelectSeq(orders, LAMBDA r : r.book # books[i].id)
    /\ wishlist' = SelectSeq(wishlist, LAMBDA r : r.book # books[i].id)
    /\ call' = NoCall
    /\ UNCHANGED <<userBooks, nextId, artifact, trainer, cache, now, wish, inflight>>

Tick ==
    /\ now < MaxTicks * TickSeconds
    /\ now' = now + TickSeconds
    /\ call' = NoCall
    /\ UNCHANGED <<books, userBooks, nextId, artifact, trainer, cache, orders, wishlist, wish, inflight>>

Init ==
    /\ books = <<>>
    /\ userBooks = <<>>
    /\ nextId = 1
    /\ artifact = Absent
    /\ trainer = Idle
    /\ cache = [k \in CacheKeys |-> NoEntry]
    /\ now = 0
    /\ call = NoCall
    /\ ShopEmpty

Next ==
    \/ \E id \in BookIds, n \in TopNs : GetRecommendations(id, n)
    \/ TrainBegin
    \/ TrainEnd
    \/ \E p \in Profiles : AddBook(p)
    \/ \E i \in 1..MaxBooks : DeleteBook(i)
    \/ Tick

Spec == Init /\ [][Next]_vars

(***************************************************************************)
(* Training alone, over tables larger than the cluster cap.                *)
(***************************************************************************)
Tables(maxLen) ==
    UNION {{[i \in 1..k |-> NewBook(i, ps[i])] : ps \in [1..k -> Profiles]}
           : k \in 0..maxLen}

InitTrain ==
    /\ books \in Tables(MaxTrainBooks)
    /\ userBooks = <<>>
    /\ nextId = Len(books) + 1
    /\ artifact = Absent
    /\ trainer = Idle
    /\ cache = [k \in CacheKeys |-> NoEntry]
    /\ now = 0
    /\ call = NoCall
    /\ ShopEmpty

NextTrain == TrainBegin \/ TrainEnd

SpecTrain == InitTrain /\ [][NextTrain]_vars

(***************************************************************************)
(* Visual search.  A feature vector is a list of numbers; the vectors of   *)
(* the model stand for the flattened VGG16 outputs (non-negative, of one   *)
(* fixed length).                                                          *)
(***************************************************************************)
QueryVector == <<1, 1, 0>>

\* Cosine similarity to QueryVector: about 0.82, 0.71, 0.58 and exactly 0.5.
VectorPool == {<<1, 1, 1>>, <<1, 0, 0>>, <<1, 1, 2>>, <<1, 0, 1>>}

\* An uploaded image: a path or a file-like object; features is what the
\* extraction yields for it, NULL when the image cannot be loaded.
Uploads ==
    {[kind |-> k, features |-> f] :
        k \in {"path", "file"}, f \in {Features(QueryVector), NullFeatures}}

RECURSIVE DotFrom(_, _, _)
DotFrom(u, v, i) ==
    IF i > Len(u) THEN 0 ELSE u[i] * v[i] + DotFrom(u, v, i + 1)

Dot(u, v) == DotFrom(u, v, 1)

\* sklearn's cosine_similarity(u, v)[0][0] as the exact fraction
\* num / sqrt(den); it raises when the two vectors differ in length, and a
\* zero vector has similarity 0.
CosineSimilarity(u, v) ==
    IF Len(u) # Len(v) THEN [ok |-> FALSE, num |-> 0, den |-> 1]
    ELSE IF Dot(u, u) * Dot(v, v) = 0 THEN [ok |-> TRUE, num |-> 0, den |-> 1]
    ELSE [ok |-> TRUE, num |-> Dot(u, v), den |-> Dot(u, u) * Dot(v, v)]

\* num * |num|: the square of the numerator with its sign.
SignedSquare(x) == IF x >= 0 THEN x * x ELSE 0 - x * x

\* a < b for two similarities
SimLess(a, b) == SignedSquare(a.num) * b.den < SignedSquare(b.num) * a.den

\* Variant of AboveThreshold that also admits a similarity of exactly 0.5.
AtOrAboveThreshold(sim) == 4 * SignedSquare(sim.num) >= sim.den

\* similarity > 0.5
AboveThreshold(sim) == 4 * SignedSquare(sim.num) > sim.den

\* np.array(image_features).reshape(1, -1) succeeds
Reshapes(row) == ~row.image_features.ragged

\* Lines 87-92 and 95-100: a row whose features raise is logged and skipped.
IndexRows(rows) == SelectSeq(rows, Reshapes)

\* Lines 85-92 and 94-100: one entry per row, (row, array, kind).
IndexEntries(rows, kind) ==
    [i \in DOMAIN IndexRows(rows) |->
        [table |-> kind, id |-> IndexRows(rows)[i].id,
         features |-> IndexRows(rows)[i].image_features.vec]]

HasFeatures(row) == ~row.image_features.null

\* Variant of AvailableWithFeatures that does not look at is_available.
WithFeaturesSoldOrNot(row) == ~row.image_features.null

AvailableWithFeatures(row) == row.is_available /\ ~row.image_features.null

\* Lines 77-100: the books that have features, then the available user books
\* that have features.
BuildIndex(bs, ubs) ==
    IndexEntries(SelectSeq(bs, HasFeatures), "book")
        \o IndexEntries(SelectSeq(ubs, AvailableWithFeatures), "user_book")

RECURSIVE SimilaritiesUntilFault(_, _, _)
\* Variant of SimilaritiesFrom: a comparison that raises ends the loop.
SimilaritiesUntilFault(index, q, i) ==
    IF i > Len(index) THEN <<>>
    ELSE LET sim == CosineSimilarity(q, index[i].features)
         IN IF ~sim.ok THEN <<>>
            ELSE (IF AboveThreshold(sim)
                  THEN <<[kind |-> "triple", table |-> index[i].table,
                          id |-> index[i].id,
                          sim |-> [num |-> sim.num, den |-> sim.den]]>>
                  ELSE <<>>)
                 \o SimilaritiesUntilFault(index, q, i + 1)

RECURSIVE SimilaritiesFrom(_, _, _)
\* Lines 106-114: the entries above the threshold, in index order; an entry
\* whose comparison raises is skipped.
SimilaritiesFrom(index, q, i) ==
    IF i > Len(index) THEN <<>>
    ELSE LET sim == CosineSimilarity(q, index[i].features)
         IN (IF sim.ok /\ AboveThreshold(sim)
             THEN <<[kind |-> "triple", table |-> index[i].table,
                     id |-> index[i].id, sim |-> [num |-> sim.num, den |-> sim.den]]>>
             ELSE <<>>)
            \o SimilaritiesFrom(index, q, i + 1)

\* Variant of InsertDescending that puts x before the elements equal to it.
InsertBeforeEqual(sorted, x) ==
    LET before == {i \in DOMAIN sorted : SimLess(x.sim, sorted[i].sim)}
        k == Cardinality(before)
    IN SubSeq(sorted, 1, k) \o <<x>> \o SubSeq(sorted, k + 1, Len(sorted))

\* x put into a descending list after every element that is not smaller.
InsertDescending(sorted, x) ==
    LET before == {i \in DOMAIN sorted : ~SimLess(sorted[i].sim, x.sim)}
        k == Cardinality(before)
    IN SubSeq(sorted, 1, k) \o <<x>> \o SubSeq(sorted, k + 1, Len(sorted))

RECURSIVE SortDescending(_)
\* similarities.sort(key=lambda x: x[1], reverse=True): a stable sort.
SortDescending(s) ==
    IF s = <<>> THEN <<>>
    ELSE InsertDescending(SortDescending(SubSeq(s, 1, Len(s) - 1)), s[Len(s)])

NoSim == [num |-> 0, den |-> 1]

\* Book.objects.all()[:top_n] as the caller of line 67 gets it: plain rows.
DefaultRows(bs, n) ==
    [i \in 1..Min(n, Len(bs)) |->
        [kind |-> "row", table |-> "book", id |-> bs[i].id, sim |-> NoSim]]

\* find_similar_books_enhanced(up, n) on the tables bs, ubs with the cache c
\* at time t.
VisualOutcome(bs, ubs, c, t, up, n) ==
    LET Ended(path, result) ==
            [outcome |-> "return", result |-> result, path |-> path,
             index |-> "none", found |-> <<>>, cache |-> c]
        got == CacheGet(c, FeaturesKey, t)
        index == IF got.found THEN got.value ELSE BuildIndex(bs, ubs)
        similarities == SortDescending(SimilaritiesFrom(index, up.features.vec, 1))
    IN IF up.features.null /\ up.kind = "file" THEN Ended("error", <<>>)
       ELSE IF up.features.null /\ n < 0 THEN Ended("error", <<>>)
       ELSE IF up.features.null THEN Ended("no_features", DefaultRows(bs, n))
       ELSE [outcome |-> "return", result |-> PySlice(similarities, n),
             path |-> "ranked",
             index |-> IF got.found THEN "cached" ELSE "built",
             found |-> similarities,
             cache |-> IF got.found THEN c
                       ELSE CacheSet(c, FeaturesKey, index, IndexTTL, t)]

FindSimilar(up, n) ==
    \E r \in {VisualOutcome(books, userBooks, cache, now, up, n)} :
       /\ cache' = r.cache
       /\ call' = [NoCall EXCEPT !.op = "find_similar", !.top_n = n,
                      !.outcome = r.outcome, !.result = r.result,
                      !.path = r.path, !.upload = up,
                      !.index = r.index, !.found = r.found,
                      !.stale = r.path = "ranked" /\ Expired(cache, FeaturesKey, now)]
       /\ UNCHANGED <<books, userBooks, nextId, artifact, trainer, now, orders, wishlist, wish, inflight>>

\* The tables a visual query may find: every row with or without features.
VisualBooks ==
    UNION {{[i \in 1..k |->
                [NewBook(i, CHOOSE p \in Profiles : p.genre = <<"fiction">>)
                    EXCEPT !.image_features = fs[i]]]
            : fs \in [1..k -> {NullFeatures} \cup {Features(v) : v \in VectorPool}]}
           : k \in {MaxVisBooks}}

VisualUserBooks ==
    UNION {{[i \in 1..k |->
                [id |-> i, is_available |-> av[i], image_features |-> fs[i]]]
            : fs \in [1..k -> {NullFeatures} \cup {Features(v) : v \in VectorPool}],
              av \in [1..k -> BOOLEAN]}
           : k \in {MaxUserBooks}}

InitVisual ==
    /\ books \in VisualBooks
    /\ userBooks \in VisualUserBooks
    /\ nextId = Len(books) + 1
    /\ artifact = Absent
    /\ trainer = Idle
    /\ cache = [k \in CacheKeys |-> NoEntry]
    /\ now = 0
    /\ call = NoCall
    /\ ShopEmpty

NextVisual == \E up \in Uploads, n \in VisTopNs : FindSimilar(up, n)

SpecVisual == InitVisual /\ [][NextVisual]_vars

(***************************************************************************)
(* Requests and commands that run while the tables change.                 *)
(*   find_similar_books_enhanced builds its index with two queries, the    *)
(*   Book rows (line 86) and then the UserBook rows (line 94), outside any *)
(*   transaction;                                                          *)
(*   precompute_features stores a vector on a row;                         *)
(*   views.buy_user_book reads the row, creates the Order, saves the row.  *)
(***************************************************************************)
\* The in-flight index builds take note of the tables bs, ubs.
Observed(fl, bs, ubs) ==
    [p \in Clients |->
        IF fl[p].pc = "build"
        THEN [fl[p] EXCEPT !.seen = @ \cup {BuildIndex(bs, ubs)}]
        ELSE fl[p]]

\* Lines 57-92: up to and including the loop over the Book rows.  A call that
\* needs no build ends here.
SearchBegin(p, up, n) ==
    /\ inflight[p].pc = "idle"
    /\ IF up.features.null \/ CacheGet(cache, FeaturesKey, now).found
       THEN FindSimilar(up, n)
       ELSE /\ inflight' = [inflight EXCEPT ![p] =
                  [NoFlight EXCEPT !.pc = "build", !.top_n = n, !.upload = up,
                      !.held = IndexEntries(SelectSeq(books, HasFeatures), "book"),
                      !.seen = {BuildIndex(books, userBooks)}]]
            /\ call' = [NoCall EXCEPT !.op = "find_similar", !.top_n = n,
                           !.upload = up, !.path = "building"]
            /\ UNCHANGED <<books, userBooks, nextId, artifact, trainer, cache, now,
                           orders, wishlist, wish>>

\* Lines 94-121: the loop over the UserBook rows, cache.set, the ranking.
SearchEnd(p) ==
    /\ inflight[p].pc = "build"
    /\ \E index \in {inflight[p].held
                       \o IndexEntries(SelectSeq(userBooks, AvailableWithFeatures),
                                       "user_book")} :
       \E similarities \in {SortDescending(
                               SimilaritiesFrom(index, inflight[p].upload.features.vec, 1))} :
          /\ cache' = CacheSet(cache, FeaturesKey, index, IndexTTL, now)
          /\ call' = [NoCall EXCEPT !.op = "find_similar",
                         !.top_n = inflight[p].top_n, !.outcome = "return",
                         !.result = PySlice(similarities, inflight[p].top_n),
                         !.path = "ranked", !.upload = inflight[p].upload,
                         !.index = "built", !.found = similarities,
                         !.stale = Expired(cache, FeaturesKey, now)]
    /\ inflight' = [inflight EXCEPT ![p] = NoFlight]
    /\ UNCHANGED <<books, userBooks, nextId, artifact, trainer, now,
                   orders, wishlist, wish>>

\* Variant of LacksFeatures: every row is processed.
LacksFeaturesOrNot(row) == TRUE

\* 'not row.image_features': NULL and the empty list alike.
LacksFeatures(row) == row.image_features.null \/ row.image_features = Features(<<>>)

\* What extract_features_from_url / extract_features_from_path give for the
\* image of a row: None, or the vector of the image.
Extractions == {NullFeatures} \cup {Features(v) : v \in VectorPool}

\* 'if features:' of lines 20 and 40
Truthy(f) == ~f.null /\ f.vec # <<>>

\* Lines 16-28 (table "book") and 34-50 (table "user_book") for one row of
\* the loop; f is the outcome of the extraction.
PrecomputeRow(table, i, f) ==
    /\ f \in Extractions
    /\ i \in DOMAIN (IF table = "book" THEN books ELSE userBooks)
    /\ \E rows \in {IF table = "book" THEN books ELSE userBooks} :
       \E write \in {LacksFeatures(rows[i]) /\ Truthy(f)} :
       \E rows1 \in {IF write THEN [rows EXCEPT ![i].image_features = f] ELSE rows} :
          /\ books' = IF table = "book" THEN rows1 ELSE books
          /\ userBooks' = IF table = "user_book" THEN rows1 ELSE userBooks
          /\ call' = [NoCall EXCEPT !.op = "precompute_features",
                         !.outcome = "return",
                         !.path = IF write THEN "written"
                                  ELSE IF LacksFeatures(rows[i]) THEN "failed"
                                  ELSE "skipped",
                         !.params = [user_id |-> 0, book_id |-> rows[i].id,
                                     authenticated |-> FALSE]]
    /\ inflight' = Observed(inflight, books', userBooks')
    /\ UNCHANGED <<nextId, artifact, trainer, cache, now, orders, wishlist, wish>>

\* get_object_or_404(UserBook, pk=pk, is_available=True), line 734; a GET
\* renders the page and ends there.
BuyUserBookGet(p, u, pk, method) ==
    /\ inflight[p].pc = "idle"
    /\ IF u = Anonymous
       THEN /\ call' = Responded("buy_user_book", u, pk, 302, "login")
            /\ UNCHANGED inflight
       ELSE IF ~\E i \in DOMAIN userBooks :
                   userBooks[i].id = pk /\ userBooks[i].is_available
       THEN /\ call' = Responded("buy_user_book", u, pk, 404, "not_found")
            /\ UNCHANGED inflight
       ELSE IF method = "GET"
       THEN /\ call' = Responded("buy_user_book", u, pk, 200, "page")
            /\ UNCHANGED inflight
       ELSE /\ call' = Responded("buy_user_book", u, pk, 0, "found")
            /\ inflight' = [inflight EXCEPT ![p] =
                  [NoFlight EXCEPT !.pc = "buy_create", !.user = u, !.pk = pk,
                      !.held = <<CHOOSE r \in Range(userBooks) : r.id = pk>>]]
    /\ UNCHANGED <<books, userBooks, nextId, artifact, trainer, cache, now,
                   orders, wishlist, wish>>

\* Order.objects.create(..., status='confirmed'), lines 738-744
BuyUserBookCreate(p) ==
    /\ inflight[p].pc = "buy_create"
    /\ orders' = Append(orders,
          [id |-> NextOrderId, user |-> inflight[p].user, book |-> 0,
           user_book |-> inflight[p].pk, quantity |-> 1, total_price |-> UnitPrice, status |-> "confirmed"])
    /\ inflight' = [inflight EXCEPT ![p].pc = "buy_save"]
    /\ call' = Responded("buy_user_book", inflight[p].user, inflight[p].pk,
                         0, "order_created")
    /\ UNCHANGED <<books, userBooks, nextId, artifact, trainer, cache, now,
                   wishlist, wish>>

\* user_book.is_available = False; user_book.save(), lines 747-751: every
\* column of the row is written from the object read at line 734.
BuyUserBookSave(p) ==
    /\ inflight[p].pc = "buy_save"
    /\ userBooks' = [i \in DOMAIN userBooks |->
          IF userBooks[i].id = inflight[p].pk
          THEN [inflight[p].held[1] EXCEPT !.is_available = FALSE]
          ELSE userBooks[i]]
    /\ inflight' = Observed([inflight EXCEPT ![p] = NoFlight], books, userBooks')
    /\ call' = Responded("buy_user_book", inflight[p].user, inflight[p].pk,
                         302, "purchased")
    /\ UNCHANGED <<books, nextId, artifact, trainer, cache, now, orders,
                   wishlist, wish>>

MaxRebuildBooks == 1

InitRebuild ==
    /\ books \in {[i \in 1..MaxRebuildBooks |->
                      [NewBook(i, CHOOSE p \in Profiles : p.genre = <<"fiction">>)
                          EXCEPT !.image_features = fs[i]]]
                  : fs \in [1..MaxRebuildBooks ->
                              {NullFeatures, Features(<<1, 1, 1>>)}]}
    /\ userBooks \in {<<[id |-> 1, is_available |-> TRUE, image_features |-> f]>>
                      : f \in {NullFeatures, Features(<<1, 1, 2>>)}}
    /\ nextId = Len(books) + 1
    /\ artifact = Absent
    /\ trainer = Idle
    /\ cache = [k \in CacheKeys |-> NoEntry]
    /\ now = 0
    /\ call = NoCall
    /\ ShopEmpty

NextRebuild ==
    \/ \E p \in Clients, up \in Uploads : SearchBegin(p, up, MaxVisTopN)
    \/ \E p \in Clients : SearchEnd(p)
    \/ \E i \in 1..MaxRebuildBooks, f \in {NullFeatures, Features(<<1, 1, 1>>)} :
          PrecomputeRow("book", i, f)
    \/ \E p \in Clients, u \in Users : BuyUserBookGet(p, u, 1, "POST")
    \/ \E p \in Clients : BuyUserBookCreate(p)
    \/ \E p \in Clients : BuyUserBookSave(p)
    \/ Tick

SpecRebuild == InitRebuild /\ [][NextRebuild]_vars

(***************************************************************************)
(* precompute_features alone, over rows with and without a vector.         *)
(***************************************************************************)
StoredFeatures == {NullFeatures, Features(<<>>), Features(<<1, 1, 1>>)}

InitPrecompute ==
    /\ books \in {[i \in 1..MaxBooks |->
                      [NewBook(i, CHOOSE p \in Profiles : p.genre = <<"fiction">>)
                          EXCEPT !.image_features = fs[i]]]
                  : fs \in [1..MaxBooks -> StoredFeatures]}
    /\ userBooks \in {<<[id |-> 1, is_available |-> av, image_features |-> f]>>
                      : av \in BOOLEAN, f \in StoredFeatures}
    /\ nextId = Len(books) + 1
    /\ artifact = Absent
    /\ trainer = Idle
    /\ cache = [k \in CacheKeys |-> NoEntry]
    /\ now = 0
    /\ call = NoCall
    /\ ShopEmpty

NextPrecompute ==
    \/ \E i \in 1..MaxBooks, f \in Extractions : PrecomputeRow("book", i, f)
    \/ \E f \in Extractions : PrecomputeRow("user_book", 1, f)

SpecPrecompute == InitPrecompute /\ [][NextPrecompute]_vars

(***************************************************************************)
(* Visual search over tables with malformed feature values: a list of a    *)
(* length other than the query's, and a ragged list.                       *)
(***************************************************************************)
MaxFaultyBooks == 2

FaultyPool ==
    {NullFeatures, RaggedFeatures, Features(<<1, 1>>),
     Features(<<1, 1, 1>>), Features(<<1, 1, 2>>)}

InitFaulty ==
    /\ books \in {[i \in 1..MaxFaultyBooks |->
                      [NewBook(i, CHOOSE p \in Profiles : p.genre = <<"fiction">>)
                          EXCEPT !.image_features = fs[i]]]
                  : fs \in [1..MaxFaultyBooks -> FaultyPool]}
    /\ userBooks \in {<<[id |-> 1, is_available |-> av, image_features |-> f]>>
                      : av \in BOOLEAN, f \in FaultyPool}
    /\ nextId = Len(books) + 1
    /\ artifact = Absent
    /\ trainer = Idle
    /\ cache = [k \in CacheKeys |-> NoEntry]
    /\ now = 0
    /\ call = NoCall
    /\ ShopEmpty

SpecFaulty == InitFaulty /\ [][NextVisual]_vars

(***************************************************************************)
(* Queries over a catalog and an artifact that nothing changes: only the   *)
(* cache and the clock move.                                               *)
(***************************************************************************)
\* The artifacts a table may meet: one trained on a non-empty prefix of it,
\* or none when training on the table cannot produce one.
FixedArtifacts(bs) ==
    UNION {{Valid(t.data, SubSeq(bs, 1, k)) :
               t \in {o \in TrainOutcomes(SubSeq(bs, 1, k)) : o.kind = "ok"}}
           : k \in 1..Len(bs)}
      \cup (IF \A o \in TrainOutcomes(bs) : o.kind # "ok" THEN {Absent} ELSE {})

WithFeatures(bs) ==
    [i \in DOMAIN bs |-> [bs[i] EXCEPT !.image_features = Features(<<1, 1, 1>>)]]

InitFixed ==
    /\ books \in {WithFeatures(bs) : bs \in Tables(MaxBooks)}
    /\ userBooks = <<>>
    /\ nextId = Len(books) + 1
    /\ artifact \in FixedArtifacts(books)
    /\ trainer = Idle
    /\ cache = [k \in CacheKeys |-> NoEntry]
    /\ now = 0
    /\ call = NoCall
    /\ ShopEmpty

NextFixed ==
    \/ \E id \in BookIds, n \in TopNs : GetRecommendations(id, n)
    \/ \E up \in Uploads, n \in TopNs : FindSimilar(up, n)
    \/ Tick

SpecFixed == InitFixed /\ [][NextFixed]_vars

(***************************************************************************)
(* views.api_recommendations.  A query parameter is the text of a number;  *)
(* 0 stands for a parameter the request does not carry.  The text of an id *)
(* gives the same cache key as the id, and is equal to no id of book_ids.  *)
(***************************************************************************)
DefaultTopN == 5

\* A value that is no integer id: the text form of a query parameter.
TextId == 0

Requests ==
    {[user_id |-> u, book_id |-> b, authenticated |-> a] :
        u \in {0} \cup BookIds, b \in {0} \cup BookIds, a \in BOOLEAN}

\* Response(data) as rendered to JSON: a Book instance in the data cannot be
\* encoded and the request ends in a server error.
RenderStatus(result) == IF result = <<>> THEN 200 ELSE 500

ApiRecommendations(req) ==
    LET Answer(status, path, result) ==
            call' = [NoCall EXCEPT !.op = "api_recommendations", !.params = req,
                        !.status = status, !.path = path, !.result = result,
                        !.outcome = IF status = 500 THEN "raise" ELSE "return"]
        got == CacheGet(cache, RecKey(req.book_id), now)
    IN IF req.user_id # 0
       THEN \* get_recommendations has no parameter user_id: TypeError
            /\ Answer(500, "type_error", <<>>)
            /\ UNCHANGED <<books, userBooks, nextId, artifact, trainer, cache, now, orders, wishlist, wish, inflight>>
       ELSE IF req.book_id # 0
       THEN IF got.found /\ got.value # <<>>
            THEN /\ Answer(RenderStatus(got.value), "cache", got.value)
                 /\ UNCHANGED <<books, userBooks, nextId, artifact, trainer, cache, now, orders, wishlist, wish, inflight>>
            ELSE \E r \in RecMiss(books, artifact, TextId, DefaultTopN) :
                    /\ artifact' = r.artifact
                    /\ cache' = IF r.store
                                THEN CacheSet(cache, RecKey(req.book_id), r.result,
                                              RecTTL, now)
                                ELSE cache
                    /\ Answer(IF r.outcome = "raise" THEN 500
                              ELSE RenderStatus(r.result), r.path, r.result)
                    /\ UNCHANGED <<books, userBooks, nextId, trainer, now, orders, wishlist, wish, inflight>>
       ELSE /\ Answer(400, "bad_request", <<>>)
            /\ UNCHANGED <<books, userBooks, nextId, artifact, trainer, cache, now, orders, wishlist, wish, inflight>>

NextApi ==
    \/ \E req \in Requests : ApiRecommendations(req)
    \/ \E id \in BookIds, n \in TopNs : GetRecommendations(id, n)
    \/ Tick

SpecApi == InitFixed /\ [][NextApi]_vars

(***************************************************************************)
(* The three-item catalog: A and B of genre fiction, C of genre history,   *)
(* each with a category and an author of its own choice.                   *)
(***************************************************************************)
ScenarioTopN == 5

ScenarioIds == 1..3

ScenarioProfiles(genre) ==
    {[category |-> <<c>>, genre |-> <<genre>>, author |-> <<a>>] :
        c \in {"novel", "essay"}, a \in {"smith", "jones"}}

ScenarioTables ==
    {<<NewBook(1, a), NewBook(2, b), NewBook(3, c)>> :
        a \in ScenarioProfiles("fiction"), b \in ScenarioProfiles("fiction"),
        c \in ScenarioProfiles("history")}

InitScenario ==
    /\ books \in ScenarioTables
    /\ userBooks = <<>>
    /\ nextId = Len(books) + 1
    /\ artifact = Absent
    /\ trainer = Idle
    /\ cache = [k \in {RecKey(id) : id \in ScenarioIds} \cup {FeaturesKey} |-> NoEntry]
    /\ now = 0
    /\ call = NoCall
    /\ ShopEmpty

NextScenario ==
    \/ TrainBegin
    \/ TrainEnd
    \/ \E id \in ScenarioIds : GetRecommendations(id, ScenarioTopN)

SpecScenario == InitScenario /\ [][NextScenario]_vars

(***************************************************************************)
(* The cart and the wishlist over a catalog of up to MaxBooks books.       *)
(***************************************************************************)
ShopTables ==
    {[i \in 1..k |-> NewBook(i, CHOOSE p \in Profiles : p.genre = <<"fiction">>)]
        : k \in 0..MaxBooks}

InitShop ==
    /\ books \in ShopTables
    /\ userBooks = <<>>
    /\ nextId = Len(books) + 1
    /\ artifact = Absent
    /\ trainer = Idle
    /\ cache = [k \in CacheKeys |-> NoEntry]
    /\ now = 0
    /\ call = NoCall
    /\ ShopEmpty

NextCart == \E u \in {Anonymous} \cup Users, pk \in BookIds : AddToCart(u, pk)

SpecCart == InitShop /\ [][NextCart]_vars

\* The cart of the users over one book, requests of two clients interleaved.
InitCartRace ==
    /\ books = <<NewBook(1, CHOOSE p \in Profiles : p.genre = <<"fiction">>)>>
    /\ userBooks = <<>>
    /\ nextId = 2
    /\ artifact = Absent
    /\ trainer = Idle
    /\ cache = [k \in CacheKeys |-> NoEntry]
    /\ now = 0
    /\ call = NoCall
    /\ ShopEmpty

NextCartRace ==
    \/ \E p \in Clients, u \in {Anonymous} \cup Users, pk \in BookIds :
          AddToCartRead(p, u, pk)
    \/ \E p \in Clients, u \in {Anonymous} \cup Users, pk \in OrderPks,
          method \in {"GET", "POST"}, quantity \in 0..MaxQuantity :
          UpdateCartRead(p, u, pk, method, quantity)
    \/ \E p \in Clients, u \in {Anonymous} \cup Users, pk \in OrderPks :
          RemoveFromCartRead(p, u, pk)
    \/ \E p \in Clients : CartCreate(p)
    \/ \E p \in Clients : CartSave(p)
    \/ \E p \in Clients : CartDelete(p)

SpecCartRace == InitCartRace /\ [][NextCartRace]_vars

NextWishlist ==
    \/ \E p \in Clients, u \in {Anonymous} \cup Users, pk \in BookIds :
          AddToWishlistGet(p, u, pk)
    \/ \E p \in Clients : AddToWishlistCreate(p)
    \/ \E p \in Clients : AddToWishlistReget(p)
    \/ \E u \in {Anonymous} \cup Users, pk \in BookIds : RemoveFromWishlist(u, pk)

SpecWishlist == InitShop /\ [][NextWishlist]_vars

(***************************************************************************)
(* A catalog of three books whose rows change place.  Book has no          *)
(* Meta.ordering: Book.objects.all() and Book.objects.filter(...) return   *)
(* the rows in the order the database chooses, and a row that is saved     *)
(* again may come back at another position.                                *)
(***************************************************************************)
\* Book.save() on row i: the row is now the last one the table returns.
SaveBook(i) ==
    /\ i \in DOMAIN books
    /\ books' = SubSeq(books, 1, i - 1) \o SubSeq(books, i + 1, Len(books))
                   \o <<books[i]>>
    /\ call' = NoCall
    /\ UNCHANGED <<userBooks, nextId, artifact, trainer, cache, now,
                   orders, wishlist, wish, inflight>>

InitOrder ==
    /\ books \in {[i \in ScenarioIds |-> NewBook(i, ps[i])] :
                    ps \in {qs \in [ScenarioIds -> Profiles] : qs[1] = qs[2]}}
    /\ userBooks = <<>>
    /\ nextId = Len(books) + 1
    /\ artifact = Absent
    /\ trainer = Idle
    /\ cache = [k \in {RecKey(id) : id \in ScenarioIds} \cup {FeaturesKey} |-> NoEntry]
    /\ now = 0
    /\ call = NoCall
    /\ ShopEmpty

NextOrder ==
    \/ \E i \in ScenarioIds : SaveBook(i)
    \/ \E i \in ScenarioIds : DeleteBook(i)
    \/ \E id \in ScenarioIds : GetRecommendations(id, ScenarioTopN)

SpecOrder == InitOrder /\ [][NextOrder]_vars

(***************************************************************************)
(* extract_features_from_url and extract_features_from_path.  The world    *)
(* the call meets is given by the outcome of each of its steps: getting    *)
(* the bytes, decoding them, loading the VGG16 model, running it.          *)
(***************************************************************************)
UrlSources == {"ok", "unreachable", "timeout", "http_error"}

PathSources == {"ok", "missing"}

StepOutcomes(sources) ==
    [source : sources, decode : {"ok", "corrupt"},
     model : {"ok", "raise"}, predict : {"ok", "raise"}]

\* extract_features_from_image(img), lines 21-29: no handler of its own.
ExtractFeaturesFromImage(img, st) ==
    IF st.model # "ok" \/ st.predict # "ok"
    THEN [raised |-> TRUE, value |-> NullFeatures]
    ELSE [raised |-> FALSE, value |-> Features(img)]

\* The body of the try of lines 34-37 and of line 45-46.
ExtractBody(img, st) ==
    IF st.source # "ok" \/ st.decode # "ok"
    THEN [raised |-> TRUE, value |-> NullFeatures]
    ELSE ExtractFeaturesFromImage(img, st)

\* Variant of ExtractFeaturesFromPath without the handler.
ExtractFeaturesFromPathUnguarded(img, st) == ExtractBody(img, st)

\* try: ... except Exception: return None
ExtractFeaturesFromUrl(img, st) ==
    IF ExtractBody(img, st).raised THEN [raised |-> FALSE, value |-> NullFeatures]
    ELSE ExtractBody(img, st)

ExtractFeaturesFromPath(img, st) ==
    IF ExtractBody(img, st).raised THEN [raised |-> FALSE, value |-> NullFeatures]
    ELSE ExtractBody(img, st)

\* A call of one of the two functions; found holds the outcomes of the steps,
\* upload the image, result the value returned.
Extracted(op, kind, img, st, r) ==
    [NoCall EXCEPT !.op = op,
        !.outcome = IF r.raised THEN "raise" ELSE "return",
        !.upload = [kind |-> kind, features |-> Features(img)],
        !.found = <<st.source, st.decode, st.model, st.predict>>,
        !.result = IF r.raised THEN <<>> ELSE <<r.value>>]

ExtractFromUrl(img, st) ==
    /\ call' = Extracted("extract_features_from_url", "url", img, st,
                         ExtractFeaturesFromUrl(img, st))
    /\ UNCHANGED <<books, userBooks, nextId, artifact, trainer, cache, now,
                   orders, wishlist, wish, inflight>>

ExtractFromPath(img, st) ==
    /\ call' = Extracted("extract_features_from_path", "path", img, st,
                         ExtractFeaturesFromPath(img, st))
    /\ UNCHANGED <<books, userBooks, nextId, artifact, trainer, cache, now,
                   orders, wishlist, wish, inflight>>

NextExtract ==
    \/ \E img \in VectorPool, st \in StepOutcomes(UrlSources) : ExtractFromUrl(img, st)
    \/ \E img \in VectorPool, st \in StepOutcomes(PathSources) : ExtractFromPath(img, st)

SpecExtract == InitShop /\ [][NextExtract]_vars

(***************************************************************************)
(* Properties of the textual recommender.                                  *)
(***************************************************************************)
ResultIds(c) == Range(c.result)

\* C1 (as claimed): every call of get_recommendations returns; none raises.
C1_NeverRaises ==
    call.op = "get_recommendations" => call.outcome = "return"

\* C2 (as claimed): no returned list, on any return path, contains the
\* queried book.
C2_NeverContainsQuery ==
    (call.op = "get_recommendations" /\ call.outcome = "return")
        => call.book_id \notin ResultIds(call)

\* C2 (amended): a list computed on the cluster path (the queried id is in
\* the loaded artifact's book_ids) does not contain the queried book.
C2_ClusterResultExcludesQuery ==
    (call.op = "get_recommendations" /\ call.path = "cluster")
        => call.book_id \notin ResultIds(call)

C2_Witness ==
    /\ call.op = "get_recommendations"
    /\ call.path = "cluster"
    /\ call.result # <<>>

\* How a set of outcomes of get_recommendations looks to the caller.
Seen(rs) == {<<r.outcome, r.result>> : r \in rs}

\* C4 (as claimed): for an id absent from a valid artifact's book_ids the
\* call ends as it does for that id, the same table and the same top_n when
\* no artifact file exists.
C4_UnknownIdSameAsNoArtifact ==
    \A id \in 1..(MaxBooks + 1), n \in TopNs :
        (artifact.state = "valid" /\ id \notin Range(artifact.data.book_ids))
            => Seen(RecMiss(books, artifact, id, n))
                 = Seen(RecMiss(books, Absent, id, n))

\* C4 (amended): for an id that is neither in a valid artifact's book_ids
\* nor the id of a row of the table, the call ends as it does for that id,
\* the same table and the same top_n when no artifact file exists.
C4_UncataloguedIdSameAsNoArtifact ==
    \A id \in 1..(MaxBooks + 1), n \in TopNs :
        (/\ artifact.state = "valid"
         /\ id \notin Range(artifact.data.book_ids)
         /\ id \notin Range(IdList(books)))
            => Seen(RecMiss(books, artifact, id, n))
                 = Seen(RecMiss(books, Absent, id, n))

C4_Witness ==
    /\ call.op = "get_recommendations"
    /\ call.path = "unknown_id"
    /\ call.outcome = "return"
    /\ call.result # <<>>
    /\ call.book_id \notin Range(IdList(books))
    /\ artifact.state = "valid"

\* C6: every artifact, and every model_data about to be written, was fitted
\* with min(10, n) clusters for its n rows: never more than n, never more
\* than 10.
RequestedOk(d) ==
    LET n == Len(d.book_ids)
        k == d.kmeans.n_clusters
    IN /\ k = (IF n < 10 THEN n ELSE 10)
       /\ k <= n
       /\ k <= 10

C6_ClusterCount ==
    /\ artifact.state = "valid" => RequestedOk(artifact.data)
    /\ trainer.pc = "writing" => RequestedOk(trainer.pending)

C6_Witness ==
    /\ artifact.state = "valid"
    /\ Len(artifact.data.book_ids) > 10
    /\ artifact.data.kmeans.n_clusters = 10

\* C7: a run of train_recommendation_model over an empty table returns
\* without creating, replacing or altering the artifact file.
C7_EmptyTableTrainIsNoOp ==
    [][(call'.train # "none" /\ books = <<>>)
          => (call'.train = "noop" /\ artifact' = artifact)]_vars

C7_Witness ==
    /\ call.op = "train"
    /\ call.train = "noop"
    /\ artifact.state = "valid"

\* C8: in every artifact, and in every model_data about to be written,
\* book_ids and features have the same length and features[i] is
\* category + ' ' + genre + ' ' + author of the row with id book_ids[i] of
\* the table the training run read.
ParallelOk(d, src) ==
    /\ Len(d.book_ids) = Len(d.features)
    /\ \A i \in DOMAIN d.book_ids :
          \E j \in DOMAIN src :
             /\ src[j].id = d.book_ids[i]
             /\ d.features[i] =
                  src[j].category \o <<" ">> \o src[j].genre \o <<" ">> \o src[j].author

C8_ParallelArrays ==
    /\ artifact.state = "valid" => ParallelOk(artifact.data, artifact.src)
    /\ trainer.pc = "writing" => ParallelOk(trainer.pending, trainer.src)

C8_Witness ==
    /\ artifact.state = "valid"
    /\ \E i, j \in DOMAIN artifact.data.features :
          artifact.data.features[i] # artifact.data.features[j]

(***************************************************************************)
(* Properties of the cache.                                                *)
(***************************************************************************)
EmptyCache == [k \in CacheKeys |-> NoEntry]

\* C3 (as claimed): over an unchanged catalog and artifact every call returns
\* the set of items that the same call returns when every cache lookup
\* misses.
C3_SameAsWithoutCache ==
    /\ call.op = "get_recommendations"
          => \E r \in RecMiss(books, artifact, call.book_id, call.top_n) :
                /\ r.outcome = call.outcome
                /\ Range(r.result) = Range(call.result)
    /\ call.op = "find_similar"
          => Range(call.result)
               = Range(VisualOutcome(books, userBooks, EmptyCache, now,
                                     call.upload, call.top_n).result)

\* C5: a stored value is served only while it is younger than its time to
\* live: a recommendation list less than 30 minutes after it was stored, the
\* 'book_features' index less than 15 minutes after it was stored.
C5_ExpiredNeverServed ==
    /\ (call.op = "get_recommendations" /\ call.path = "cache")
          => now - cache[RecKey(call.book_id)].stored < 30 * 60
    /\ (call.op = "find_similar" /\ call.index = "cached")
          => now - cache[FeaturesKey].stored < 15 * 60

\* A query found an expired recommendation list and computed a new one.
C5_Witness ==
    /\ call.op = "get_recommendations"
    /\ call.stale
    /\ call.path = "cluster"
    /\ call.result # <<>>
    /\ cache[RecKey(call.book_id)].stored = now

(***************************************************************************)
(* Properties of the visual search.                                        *)
(***************************************************************************)
\* The index the last ranking ran over: the one the cache holds.
UsedIndex == cache[FeaturesKey].value

\* The cosine similarity of the query q and v is greater than one half:
\* 2 * (q . v) > |q| * |v|.
MoreThanHalf(q, v) ==
    /\ Len(q) = Len(v)
    /\ Dot(q, v) > 0
    /\ 4 * Dot(q, v) * Dot(q, v) > Dot(q, q) * Dot(v, v)

ExactlyHalf(q, v) ==
    /\ Len(q) = Len(v)
    /\ Dot(q, v) > 0
    /\ 4 * Dot(q, v) * Dot(q, v) = Dot(q, q) * Dot(v, v)

Listed(list, e) ==
    \E k \in DOMAIN list : list[k].table = e.table /\ list[k].id = e.id

\* C9: the entries find_similar_books_enhanced ranks are exactly the index
\* entries whose cosine similarity to the query is greater than 0.5.
C9_StrictThreshold ==
    (call.op = "find_similar" /\ call.path = "ranked")
        => \A i \in DOMAIN UsedIndex :
              Listed(call.found, UsedIndex[i])
                 <=> MoreThanHalf(call.upload.features.vec, UsedIndex[i].features)

\* A ranking over an index with an entry at exactly 0.5 and an entry above.
C9_Witness ==
    /\ call.op = "find_similar"
    /\ call.path = "ranked"
    /\ \E i, j \in DOMAIN UsedIndex :
          /\ ExactlyHalf(call.upload.features.vec, UsedIndex[i].features)
          /\ ~Listed(call.found, UsedIndex[i])
          /\ Listed(call.found, UsedIndex[j])

\* The similarity of index entry i is greater than that of entry j.
Closer(q, index, i, j) ==
    SimLess(CosineSimilarity(q, index[j].features),
            CosineSimilarity(q, index[i].features))

\* The number of candidates that come before index entry i: those that are
\* closer to the query, and those as close that stand earlier in the index.
RankOf(q, index, i) ==
    Cardinality({j \in DOMAIN index :
        /\ MoreThanHalf(q, index[j].features)
        /\ \/ Closer(q, index, j, i)
           \/ ~Closer(q, index, i, j) /\ j < i})

\* C10: the result is the first top_n of the entries above the threshold in
\* descending order of similarity, entries of equal similarity in index
\* order.  (Python's slice: a negative top_n leaves off the last -top_n.)
C10_RankingOrder ==
    (call.op = "find_similar" /\ call.path = "ranked")
        => LET q == call.upload.features.vec
               above == {i \in DOMAIN UsedIndex : MoreThanHalf(q, UsedIndex[i].features)}
               count == Cardinality(above)
               kept == IF call.top_n >= 0
                       THEN (IF call.top_n < count THEN call.top_n ELSE count)
                       ELSE (IF count + call.top_n > 0 THEN count + call.top_n ELSE 0)
           IN /\ Len(call.result) = kept
              /\ \A k \in 1..kept :
                    \E i \in above :
                       /\ RankOf(q, UsedIndex, i) = k - 1
                       /\ call.result[k].table = UsedIndex[i].table
                       /\ call.result[k].id = UsedIndex[i].id

\* Four candidates, top_n = 3: one closest, two equally close, one less close
\* that is left off.
C10_Witness ==
    /\ call.op = "find_similar"
    /\ call.path = "ranked"
    /\ call.top_n = 3
    /\ Len(call.found) = 4
    /\ Len(call.result) = 3
    /\ SimLess(call.result[2].sim, call.result[1].sim)
    /\ ~SimLess(call.result[3].sim, call.result[2].sim)
    /\ SimLess(call.found[4].sim, call.result[3].sim)

\* C11 (as claimed): every element find_similar_books_enhanced returns, on
\* every return path, is a triple (item, similarity, kind) with the
\* similarity in [0, 1] and the kind 'book' or 'user_book'.
C11_EveryElementIsTriple ==
    call.op = "find_similar"
        => \A k \in DOMAIN call.result :
              /\ call.result[k].kind = "triple"
              /\ call.result[k].table \in {"book", "user_book"}
              /\ call.result[k].sim.num >= 0
              /\ call.result[k].sim.num * call.result[k].sim.num
                    <= call.result[k].sim.den

\* C12 (as claimed): for the catalog A (fiction), B (fiction), C (history),
\* once the artifact is trained on it, get_recommendations(A.id, 5) returns
\* exactly [B].
C12_ScenarioReturnsB ==
    ( /\ call.op = "get_recommendations"
      /\ call.book_id = 1
      /\ call.top_n = ScenarioTopN
      /\ artifact.state = "valid"
      /\ artifact.src = books )
        => (call.outcome = "return" /\ call.result = <<2>>)

\* C13 (as claimed): a GET of api_recommendations without query parameters is
\* answered with 200, authenticated or not, and no request to the endpoint is
\* answered with a 4xx or 5xx status.
C13_RecommendationsAlwaysOk ==
    call.op = "api_recommendations"
        => /\ (call.params.user_id = 0 /\ call.params.book_id = 0)
                 => call.status = 200
           /\ call.status < 400

(***************************************************************************)
(* Properties of the cart and the wishlist.                                *)
(***************************************************************************)
\* C14 (as claimed): once an authenticated user's add_to_cart for an existing
\* book has answered with a redirect, the Order table holds a row for that
\* user and that book with status 'cart'.
C14_CartRowAfterAdd ==
    (call.op = "add_to_cart" /\ call.path = "cart" /\ call.status = 302)
        => \E i \in DOMAIN orders :
              /\ orders[i].user = call.params.user_id
              /\ orders[i].book = call.params.book_id
              /\ orders[i].status = "cart"

\* C15: whatever add_to_wishlist and remove_from_wishlist requests run, and
\* however their steps interleave, the Wishlist table holds at most one row
\* per (user, book) pair.
C15_OneRowPerPair ==
    \A i, j \in DOMAIN wishlist :
        (wishlist[i].user = wishlist[j].user /\ wishlist[i].book = wishlist[j].book)
            => i = j

\* Two requests for one pair both missed the row; the INSERT of the second
\* was refused and its second SELECT found the row of the first.
C15_Witness ==
    /\ call.op = "add_to_wishlist"
    /\ call.path = "already_after_race"
    /\ Cardinality({i \in DOMAIN wishlist :
          /\ wishlist[i].user = call.params.user_id
          /\ wishlist[i].book = call.params.book_id}) = 1

(***************************************************************************)
(* Properties of the artifact and of the paths of get_recommendations.     *)
(***************************************************************************)
\* C16 (as claimed): a get_recommendations call that loads the artifact while
\* a training run is writing it never finds the file partially written.
C16_ReaderNeverSeesPartial ==
    (call.op = "get_recommendations" /\ call.path = "load_error")
        => artifact.state # "partial"

\* C17 (as claimed): the items returned on the cluster path appear in the
\* order in which their ids occur in the artifact's book_ids.
C17_TrainingOrder ==
    (call.op = "get_recommendations" /\ call.path = "cluster")
        => \A i, j \in DOMAIN call.result :
              i < j => IndexOf(artifact.data.book_ids, call.result[i])
                          < IndexOf(artifact.data.book_ids, call.result[j])

\* C18 (as claimed): when the query is in the artifact and the cluster path
\* finds no item for it, get_recommendations returns the default: the first
\* top_n rows of the catalog.
C18_EmptyClusterGivesDefault ==
    (call.op = "get_recommendations" /\ call.path = "cluster" /\ call.result = <<>>)
        => /\ DefaultRecommendations(books, call.top_n).outcome = "return"
           /\ DefaultRecommendations(books, call.top_n).result = call.result

\* C19 (as claimed): a call for an id that follows, within the cache window,
\* a call for that id that degraded to the default is served from the cache:
\* it neither trains nor loads the artifact and returns the stored default.
C19_DefaultServedFromCache ==
    [][ ( /\ call.op = "get_recommendations"
          /\ call.path \in {"train_failed", "load_error", "unknown_id"}
          /\ call.outcome = "return"
          /\ call'.op = "get_recommendations"
          /\ call'.book_id = call.book_id )
            => (call'.path = "cache" /\ call'.result = call.result) ]_vars

\* C20 (as claimed): when no feature vector can be extracted from the image,
\* path or file-like upload alike, find_similar_books_enhanced returns the
\* first top_n rows of the catalog.
C20_FailureGivesDefault ==
    (call.op = "find_similar" /\ call.upload.features.null /\ call.top_n >= 0)
        => [k \in DOMAIN call.result |-> call.result[k].id]
              = SubSeq(IdList(books), 1, Min(call.top_n, Len(books)))

(***************************************************************************)
(* Properties of the visual index.                                         *)
(***************************************************************************)
\* The feature value cannot be compared with the query q.
Malformed(f, q) == ~f.null /\ (f.ragged \/ Len(f.vec) # Len(q))

\* The rows without those whose feature value is malformed.
WithoutMalformed(rows, q) ==
    SelectSeq(rows, LAMBDA r : ~Malformed(r.image_features, q))

\* C21: a ranking is the ranking the same query returns over the tables
\* without the rows whose feature value is malformed, whether the value
\* fails when the index is built or when it is compared with the query.
C21_MalformedEntrySkipped ==
    (call.op = "find_similar" /\ call.path = "ranked")
        => call.result
             = VisualOutcome(WithoutMalformed(books, call.upload.features.vec),
                             WithoutMalformed(userBooks, call.upload.features.vec),
                             EmptyCache, now, call.upload, call.top_n).result

\* A ranking over tables with a ragged value and a value of the wrong length
\* that still returns an item.
C21_Witness ==
    /\ call.op = "find_similar"
    /\ call.path = "ranked"
    /\ call.result # <<>>
    /\ \E i \in DOMAIN books : books[i].image_features.ragged
    /\ \E i \in DOMAIN UsedIndex :
          Len(UsedIndex[i].features) # Len(call.upload.features.vec)

\* The number of entries of the index for the row id of the table.
EntriesFor(index, table, id) ==
    Cardinality({k \in DOMAIN index : index[k].table = table /\ index[k].id = id})

\* C22 (as claimed): an index just built holds one entry for every book and
\* one for every user book that has a feature value, and none for a row
\* without one.
C22_EntryForEveryVector ==
    (call.op = "find_similar" /\ call.index = "built")
        => /\ \A i \in DOMAIN books :
                 EntriesFor(UsedIndex, "book", books[i].id)
                    = IF books[i].image_features.null THEN 0 ELSE 1
           /\ \A i \in DOMAIN userBooks :
                 EntriesFor(UsedIndex, "user_book", userBooks[i].id)
                    = IF userBooks[i].image_features.null THEN 0 ELSE 1

\* C22 (amended): an index just built holds one entry for every book whose
\* feature value is present and can be made an array, one for every user
\* book that is available and has such a value, and no other entry.
C22_EntryForEveryUsableVector ==
    (call.op = "find_similar" /\ call.index = "built")
        => /\ \A i \in DOMAIN books :
                 EntriesFor(UsedIndex, "book", books[i].id)
                    = IF books[i].image_features.null \/ books[i].image_features.ragged
                      THEN 0 ELSE 1
           /\ \A i \in DOMAIN userBooks :
                 EntriesFor(UsedIndex, "user_book", userBooks[i].id)
                    = IF \/ userBooks[i].image_features.null
                         \/ userBooks[i].image_features.ragged
                         \/ ~userBooks[i].is_available
                      THEN 0 ELSE 1
           /\ \A k \in DOMAIN UsedIndex :
                 \/ /\ UsedIndex[k].table = "book"
                    /\ \E i \in DOMAIN books :
                          /\ books[i].id = UsedIndex[k].id
                          /\ books[i].image_features.vec = UsedIndex[k].features
                 \/ /\ UsedIndex[k].table = "user_book"
                    /\ \E i \in DOMAIN userBooks :
                          /\ userBooks[i].id = UsedIndex[k].id
                          /\ userBooks[i].image_features.vec = UsedIndex[k].features

\* A build over a book with a vector, a book without one and a user book
\* that has a vector but is no longer available.
C22_Witness ==
    /\ call.op = "find_similar"
    /\ call.index = "built"
    /\ \E i \in DOMAIN books :
          ~books[i].image_features.null /\ ~books[i].image_features.ragged
    /\ \E i \in DOMAIN books : books[i].image_features.null
    /\ \E i \in DOMAIN userBooks :
          /\ ~userBooks[i].image_features.null
          /\ ~userBooks[i].image_features.ragged
          /\ ~userBooks[i].is_available
    /\ Len(UsedIndex) = 1

\* C23 (as claimed): an index a build publishes in the cache is the result of
\* a build over one state of the tables: one of the states the tables went
\* through while the build ran.
C23_IndexOfOneSnapshot ==
    [][ \A p \in Clients :
          (inflight[p].pc = "build" /\ inflight'[p].pc = "idle")
              => cache'[FeaturesKey].value \in inflight[p].seen ]_vars

\* C24: on the cluster path the call returns without error, and the items
\* returned are exactly the ids selected from the artifact that are still
\* ids of rows of the catalog.
C24_DeletedIdsDropped ==
    (call.op = "get_recommendations" /\ call.path = "cluster")
        => /\ call.outcome = "return"
           /\ Range(call.result)
                = Range(ClusterBooks(artifact.data, call.book_id, call.top_n))
                     \cap BookPks(books)

\* A cluster of three of which one item has been deleted: the query returns
\* the one that is left.
C24_Witness ==
    /\ call.op = "get_recommendations"
    /\ call.path = "cluster"
    /\ call.result # <<>>
    /\ \E id \in Range(ClusterBooks(artifact.data, call.book_id, call.top_n)) :
          id \notin BookPks(books)

\* C25 (as claimed): a call get_recommendations(id, top_n) returns at most
\* top_n items, whatever calls came before it.
C25_AtMostTopN ==
    (call.op = "get_recommendations" /\ call.outcome = "return" /\ call.top_n >= 0)
        => Len(call.result) <= call.top_n

\* C26: a step of precompute_features leaves every row that carries a vector
\* as it is; it writes a vector only to a row that has none.  A second run
\* therefore changes no row the first run wrote to.
C26_WritesOnlyWhenAbsent ==
    [][ call'.op = "precompute_features"
          => /\ DOMAIN books' = DOMAIN books
             /\ DOMAIN userBooks' = DOMAIN userBooks
             /\ \A i \in DOMAIN books :
                   \/ books'[i] = books[i]
                   \/ books[i].image_features.null
                   \/ books[i].image_features.vec = <<>>
             /\ \A i \in DOMAIN userBooks :
                   \/ userBooks'[i] = userBooks[i]
                   \/ userBooks[i].image_features.null
                   \/ userBooks[i].image_features.vec = <<>> ]_vars

\* The command reached a row that carries a vector and left it alone.
C26_Witness ==
    /\ call.op = "precompute_features"
    /\ call.path = "skipped"
    /\ \E i \in DOMAIN books :
          /\ books[i].id = call.params.book_id
          /\ ~books[i].image_features.null
          /\ books[i].image_features.vec # <<>>

(***************************************************************************)
(* Properties of the feature extraction.                                   *)
(***************************************************************************)
\* C27: extract_features_from_url and extract_features_from_path never
\* raise; they return the vector of the image when every step succeeded and
\* None when any step failed.
C27_ExtractionNeverRaises ==
    call.op \in {"extract_features_from_url", "extract_features_from_path"}
        => /\ call.outcome = "return"
           /\ call.result
                = IF \A k \in DOMAIN call.found : call.found[k] = "ok"
                  THEN <<call.upload.features>>
                  ELSE <<NullFeatures>>

\* Both functions met a failure (a file that is missing, an answer with an
\* error status) and returned None.
C27_Witness ==
    /\ call.op = "extract_features_from_path"
    /\ call.found[1] = "missing"
    /\ call.result = <<NullFeatures>>

(***************************************************************************)
(* Properties of the artifact file.                                        *)
(***************************************************************************)
\* C28: get_recommendations trains only when no artifact file exists: a
\* call made while a file is present leaves the file, and so its book_ids,
\* as it was, whatever was added to or removed from the catalog since.
C28_ArtifactKeptOncePresent ==
    [][(/\ artifact.state # "absent"
        /\ \E id \in BookIds, n \in TopNs : GetRecommendations(id, n))
       => artifact' = artifact]_vars

\* A call missed the cache while the file held the ids of a catalog that has
\* changed since the training run, and did not train.
C28_Witness ==
    /\ call.op = "get_recommendations"
    /\ call.path \in {"cluster", "unknown_id"}
    /\ call.train = "none"
    /\ artifact.state = "valid"
    /\ artifact.data.book_ids # IdList(books)

(***************************************************************************)
(* Properties of the purchases and of the cart under concurrent requests.  *)
(***************************************************************************)
ConfirmedOrders(pk) ==
    {i \in DOMAIN orders : orders[i].user_book = pk /\ orders[i].status = "confirmed"}

\* C29: whatever the interleaving of buy_user_book POST requests for one
\* peer-listed book, at most one confirmed Order is created for it, and once
\* the requests have ended a book with an order is no longer available.
C29_SoldAtMostOnce ==
    \A i \in DOMAIN userBooks :
       /\ Cardinality(ConfirmedOrders(userBooks[i].id)) <= 1
       /\ (/\ ConfirmedOrders(userBooks[i].id) # {}
           /\ \A p \in Clients : inflight[p].pc \notin {"buy_create", "buy_save"})
          => ~userBooks[i].is_available

\* The quantity of the pending order of a pair, 0 when there is none.
PairQuantity(rows, u, pk) ==
    IF ExistingOrder(rows, u, pk) = {} THEN 0
    ELSE rows[CHOOSE i \in ExistingOrder(rows, u, pk) : TRUE].quantity

PendingRows(rows, u, pk) ==
    {i \in DOMAIN rows :
        rows[i].user = u /\ rows[i].book = pk /\ rows[i].status = CartStatus}

\* C30: whatever the interleaving of add_to_cart, update_cart and
\* remove_from_cart requests, a (user, book) pair never has more than one
\* pending Order, and every add_to_cart request that completes counts: it
\* leaves the quantity of the pair's order one above what it was (1 for a
\* new order).
C30_OnePendingOrderCountingAdds ==
    [][/\ \A u \in Users, pk \in BookIds :
             Cardinality(PendingRows(orders', u, pk)) <= 1
       /\ \A p \in Clients :
             (inflight[p].pc \in {"add_save", "add_create"} /\ inflight'[p].pc = "idle")
                => PairQuantity(orders', inflight[p].user, inflight[p].pk)
                     = PairQuantity(orders, inflight[p].user, inflight[p].pk) + 1]_vars

====
